---- MODULE Spec2Model ----
(***************************************************************************)
(* A model of the zone store of the dns package (zone.go): the Zone with   *)
(* its radix tree of ZoneData nodes, the mutators Insert, Remove,          *)
(* RemoveName and RemoveRRset, the reader Find, and the signing pass       *)
(* Zone.Sign with its pool of signerRoutine workers.                       *)
(*                                                                         *)
(* Domain names and radix keys are byte strings, modelled as sequences of  *)
(* byte values, so that lowercasing, label splitting and the byte-wise     *)
(* prefix and order relations of the radix tree are computed as the code   *)
(* computes them.                                                          *)
(***************************************************************************)
EXTENDS Integers, Sequences, FiniteSets, TLC

VARIABLES
    zone,    \* the Zone: Radix (key -> node), heap (node -> ZoneData), Wildcard, ModTime
    last,    \* the call that returned last: operation, arguments, result
    thr,     \* the calling goroutines of the concurrent specification
    nlock,   \* the set of ZoneData nodes whose RWMutex is write-locked
    acked,   \* RR -> "none" | "in" (Insert returned nil, not targeted since) | "out"
    sg,      \* Zone.Sign: the producer's position, locals and return value
    wk,      \* signerRoutine: each worker's position and locals
    ch       \* the channels of a Sign pass: radChan, errChan, the WaitGroup

vars == <<zone, last, thr, nlock, acked, sg, wk, ch>>

----------------------------------------------------------------------------
(* Bytes and byte strings *)

\* The byte value of each character used in the names of the model.
Ord ==
    ("." :> 46) @@ ("*" :> 42) @@ ("-" :> 45) @@ ("\\" :> 92) @@
    ("A" :> 65) @@ ("C" :> 67) @@ ("E" :> 69) @@ ("W" :> 87) @@
    ("a" :> 97) @@ ("b" :> 98) @@ ("c" :> 99) @@ ("e" :> 101) @@
    ("o" :> 111) @@ ("s" :> 115) @@ ("w" :> 119) @@ ("x" :> 120) @@
    ("0" :> 48) @@ ("g" :> 103)

\* A string literal of the program, written as a tuple of characters.
B(cs) == [i \in 1..Len(cs) |-> Ord[cs[i]]]

Dot == Ord["."]
Star == Ord["*"]
Backslash == Ord["\\"]

\* strings.ToLower on one byte and on a string (ASCII letters only).
ToLowerByte(b) == IF b >= 65 /\ b <= 90 THEN b + 32 ELSE b

ToLower(s) == [i \in 1..Len(s) |-> ToLowerByte(s[i])]

\* s[lo:hi] of Go, on 1-based positions lo..hi.
Slice(s, lo, hi) == [i \in 1..(hi - lo + 1) |-> s[lo + i - 1]]

\* Whether p is a byte-wise prefix of s.
IsPrefix(p, s) == Len(p) <= Len(s) /\ \A i \in 1..Len(p) : p[i] = s[i]

\* Byte-wise lexicographic order of strings: a < b.
StrLess(a, b) ==
    \E i \in 1..(Len(a) + 1) :
        /\ i <= Len(b)
        /\ \A j \in 1..(i - 1) : a[j] = b[j]
        /\ (i = Len(a) + 1 \/ a[i] < b[i])

\* Fqdn: the name with a dot appended unless it ends in one.
Fqdn(s) == IF Len(s) > 0 /\ s[Len(s)] = Dot THEN s ELSE s \o <<Dot>>

----------------------------------------------------------------------------
(* Names: toRadixName, SplitLabels, compareLabelsSlice *)

\* The loop of toRadixName: i is the position read, lastdot the start of the
\* current label, s the reversed name built so far. A dot ends a label unless
\* it follows a backslash that does not itself follow a backslash; after a
\* boundary (continue) lastbyte and lastlastbyte are not advanced.
RECURSIVE radixNameLoop(_, _, _, _, _, _)
radixNameLoop(d, i, lastdot, lastbyte, lastlastbyte, s) ==
    IF i > Len(d) THEN s
    ELSE IF d[i] = Dot
            /\ (lastbyte # Backslash
                \/ (lastbyte = Backslash /\ lastlastbyte = Backslash))
         THEN radixNameLoop(d, i + 1, i + 1, lastbyte, lastlastbyte,
                            Slice(d, lastdot, i - 1) \o <<Dot>> \o s)
         ELSE radixNameLoop(d, i + 1, lastdot, d[i], lastbyte, s)

\* toRadixName: the labels of d in reverse order, lowercased, after a dot.
toRadixName(d) ==
    IF d = <<>> \/ d = <<Dot>> THEN <<Dot>>
    ELSE LET s == radixNameLoop(Fqdn(d), 1, 1, 0, 0, <<>>)
         IN  <<Dot>> \o ToLower(Slice(s, 1, Len(s) - 1))

\* SplitLabels: the labels of a name, left to right; the root has none. A
\* label ends at an unescaped dot.
RECURSIVE splitLabelsLoop(_, _, _, _, _, _)
splitLabelsLoop(s, i, k, lastb, lastlastb, labels) ==
    IF i > Len(s) THEN labels
    ELSE IF s[i] = Dot /\ ~(lastb = Backslash /\ lastlastb # Backslash)
         THEN splitLabelsLoop(s, i + 1, i + 1, s[i], lastb,
                              Append(labels, Slice(s, k, i - 1)))
         ELSE splitLabelsLoop(s, i + 1, k, s[i], lastb, labels)

SplitLabels(s) ==
    IF s = <<Dot>> THEN <<>>
    ELSE splitLabelsLoop(Fqdn(s), 1, 1, Dot, Dot, <<>>)

\* compareLabelsSlice: the number of labels l1 and s2 share, counted from
\* the right until the first difference.
RECURSIVE compareLabelsLoop(_, _, _, _, _)
compareLabelsLoop(l1, l2, x1, x2, n) ==
    IF x1 < 1 \/ x2 < 1 THEN n
    ELSE IF l1[x1] = l2[x2]
         THEN compareLabelsLoop(l1, l2, x1 - 1, x2 - 1, n + 1)
         ELSE n

compareLabelsSlice(l1, s2) ==
    LET l2 == SplitLabels(s2)
    IN  compareLabelsLoop(l1, l2, Len(l1), Len(l2), 0)

----------------------------------------------------------------------------
(* The zone of the model and the records offered to it *)

\* The argument of NewZone, and the Origin and olabels NewZone derives.
OriginArg == B(<<"E", ".", "c">>)

Origin == Fqdn(ToLower(OriginArg))

olabels == SplitLabels(Origin)

\* isSubDomain, were one shared label enough.
isSubDomain_AnyLabel(child) == compareLabelsSlice(olabels, ToLower(child)) >= 1

\* Zone.isSubDomain
isSubDomain(child) == compareLabelsSlice(olabels, ToLower(child)) = Len(olabels)

\* RR type codes.
TypeA == 1
TypeNS == 2
TypeSOA == 6
TypeAAAA == 28
TypeDS == 43
TypeRRSIG == 46
TypeNSEC == 47
TypeDNSKEY == 48


\* The names of the model. In the zone: the apex as the origin and in upper
\* case, w and *, and a below w. Out of the zone: x.c., e.o., and xe.c.,
\* which ends with the origin's bytes but not with its labels.
NameApex == B(<<"e", ".", "c", ".">>)
NameApexUpper == B(<<"E", ".", "c", ".">>)
NameW == B(<<"w", ".", "e", ".", "c", ".">>)
NameStar == B(<<"*", ".", "e", ".", "c", ".">>)
NameAW == B(<<"a", ".", "w", ".", "e", ".", "c", ".">>)
NameABW == B(<<"a", "b", ".", "w", ".", "e", ".", "c", ".">>)
NameXC == B(<<"x", ".", "c", ".">>)
NameEO == B(<<"e", ".", "o", ".">>)
NameXEC == B(<<"x", "e", ".", "c", ".">>)
NameWhB == B(<<"w", "-", "b", ".", "e", ".", "c", ".">>)

\* One RR value: its header's Name and Rrtype, and TypeCovered of an RRSIG.
RRof(name, rrtype, covered) ==
    [Name |-> name, Rrtype |-> rrtype, TypeCovered |-> covered]

\* The RR values callers hold. Position in the pool is the pointer: two
\* entries with equal fields are two distinct records.
RRPool == <<
    RRof(NameW, TypeA, 0),
    RRof(NameW, TypeA, 0),
    RRof(NameW, TypeNS, 0),
    RRof(NameW, TypeRRSIG, TypeA),
    RRof(NameStar, TypeA, 0),
    RRof(NameStar, TypeAAAA, 0),
    RRof(NameAW, TypeA, 0),
    RRof(NameApexUpper, TypeNS, 0),
    RRof(NameXC, TypeA, 0),
    RRof(NameEO, TypeRRSIG, TypeA),
    RRof(NameApex, TypeSOA, 0),
    RRof(NameApexUpper, TypeSOA, 0),
    RRof(NameXEC, TypeA, 0),
    RRof(NameApex, TypeNS, 0),
    RRof(NameW, TypeDS, 0),
    RRof(NameW, TypeDNSKEY, 0),
    RRof(NameWhB, TypeA, 0) >>

RRs == DOMAIN RRPool

\* The records the one caller of the sequential specification uses.
SeqRRs ==
    {r \in RRs : /\ RRPool[r].Rrtype \notin {TypeSOA, TypeDS, TypeDNSKEY}
                 /\ RRPool[r].Name # NameWhB}

\* The names and types given to RemoveName, RemoveRRset and Find.
NamePool == {NameApex, NameW, NameStar, NameAW, NameABW}

TypePool == {TypeA, TypeRRSIG}

\* Calls are counted by ModTime; no mutator starts at ModTime = MaxTime.
MaxTime == 4

----------------------------------------------------------------------------
(* Go maps and slices *)

\* The element of a one-element set: a value computed once and read more
\* than once after.
Value(S) == CHOOSE x \in S : TRUE

\* A map is a function on its present keys; <<>> is the empty map and the
\* nil slice.
MapGet(m, k) == IF k \in DOMAIN m THEN m[k] ELSE <<>>

MapPut(m, k, v) == [x \in DOMAIN m \cup {k} |-> IF x = k THEN v ELSE m[x]]

MapDelete(m, k) == [x \in DOMAIN m \ {k} |-> m[x]]

----------------------------------------------------------------------------
(* The radix tree: keys are byte strings, values are nodes *)

\* The nil node pointer; a node is named by its key and a serial number.
Nil == <<<<>>, -1>>

\* Radix.Find: the node of the key, or else the node of the longest key of
\* the tree that is a prefix of the key, or nil.
RadixFind(R, key) ==
    IF key \in DOMAIN R THEN [node |-> R[key], exact |-> TRUE]
    ELSE LET anc == {k \in DOMAIN R : IsPrefix(k, key)}
         IN  IF anc = {} THEN [node |-> Nil, exact |-> FALSE]
             ELSE [node |-> R[CHOOSE k \in anc : \A k2 \in anc : Len(k2) <= Len(k)],
                   exact |-> FALSE]

\* Radix.Insert: adds the key; a key already there keeps its node.
RadixInsert(R, key, v) ==
    IF key \in DOMAIN R THEN R ELSE MapPut(R, key, v)

\* Radix.Remove: removes the key's node, if any.
RadixRemove(R, key) == MapDelete(R, key)

\* Radix.Next: the key that follows in byte order, wrapping to the first.
RadixNext(R, key) ==
    LET after == {k \in DOMAIN R : StrLess(key, k)}
        from == IF after = {} THEN DOMAIN R ELSE after
    IN  CHOOSE k \in from : \A k2 \in from : k2 = k \/ StrLess(k, k2)

----------------------------------------------------------------------------
(* ZoneData *)

\* NewZoneData: a node named s, as given, with empty maps.
NewZoneData(s) == [Name |-> s, RR |-> <<>>, Signatures |-> <<>>, NonAuth |-> FALSE]

\* The wildcard test of Insert, Remove and RemoveName on a name as given.
IsWildcardName(s) == Len(s) > 1 /\ s[1] = Star /\ s[2] = Dot

\* The switch of Insert on the RR's type: an RRSIG is appended to the
\* signatures of its type covered; an NS whose name is not Origin sets
\* NonAuth; every other RR is appended to the RRs of its type.
insertSwitch(zd, r) ==
    LET rr == RRPool[r]
        t == rr.Rrtype
    IN  IF t = TypeRRSIG
        THEN [zd EXCEPT !.Signatures =
                  MapPut(@, rr.TypeCovered, Append(MapGet(@, rr.TypeCovered), r))]
        ELSE [zd EXCEPT !.NonAuth = IF t = TypeNS /\ rr.Name # Origin THEN TRUE ELSE @,
                        !.RR = MapPut(@, t, Append(MapGet(@, t), r))]

\* The range loop of Remove over one slice. The loop runs over the n
\* elements the slice had at its start and reads them from the backing
\* array arr, which each removal shifts in place: with cur the slice's
\* current length, append(s[:i], s[i+1:]...) moves arr[i+1..cur] down by one
\* and faults (slice bounds out of range) when i+1 exceeds cur.
RECURSIVE rangeRemove(_, _, _, _, _, _)
rangeRemove(arr, n, cur, i, r, removed) ==
    IF i > n
    THEN [list |-> Slice(arr, 1, cur), remove |-> removed, panic |-> FALSE]
    ELSE IF arr[i] = r
         THEN IF i > cur
              THEN [list |-> Slice(arr, 1, cur), remove |-> removed, panic |-> TRUE]
              ELSE rangeRemove(
                       [j \in 1..n |-> IF j >= i /\ j < cur THEN arr[j + 1] ELSE arr[j]],
                       n, cur - 1, i + 1, r, TRUE)
         ELSE rangeRemove(arr, n, cur, i + 1, r, removed)

\* The switch of Remove on the RR's type: the pointer-equal entries are
\* removed from the slice of the type (covered), and a slice left empty is
\* deleted from its map.
removeSwitch(zd, r) ==
    LET rr == RRPool[r]
        t == rr.Rrtype
        sigtype == rr.TypeCovered
    IN  IF t = TypeRRSIG
        THEN LET old == MapGet(zd.Signatures, sigtype)
                 res == rangeRemove(old, Len(old), Len(old), 1, r, FALSE)
                 m == IF res.remove THEN MapPut(zd.Signatures, sigtype, res.list)
                      ELSE zd.Signatures
             IN  [zd |-> [zd EXCEPT !.Signatures =
                              IF ~res.panic /\ res.remove /\ res.list = <<>>
                              THEN MapDelete(m, sigtype) ELSE m],
                  remove |-> res.remove, panic |-> res.panic]
        ELSE LET old == MapGet(zd.RR, t)
                 res == rangeRemove(old, Len(old), Len(old), 1, r, FALSE)
                 m == IF res.remove THEN MapPut(zd.RR, t, res.list) ELSE zd.RR
             IN  [zd |-> [zd EXCEPT !.RR =
                              IF ~res.panic /\ res.remove /\ res.list = <<>>
                              THEN MapDelete(m, t) ELSE m],
                  remove |-> res.remove, panic |-> res.panic]

\* The switch of RemoveRRset on the type asked for: RRSIG deletes every key
\* of Signatures, any other type deletes every key of RR.
removeRRsetSwitch(zd, t) ==
    IF t = TypeRRSIG THEN [zd EXCEPT !.Signatures = <<>>]
    ELSE [zd EXCEPT !.RR = <<>>]

----------------------------------------------------------------------------
(* Zone: the mutators and Find, on a zone value z *)

\* NewZone: an empty tree, no wildcards, the time of creation.
NewZone == [Radix |-> <<>>, heap |-> <<>>, Wildcard |-> 0, ModTime |-> 0]

\* The values of a map.
Range(m) == {m[k] : k \in DOMAIN m}

\* A fresh node for a key: the key with the least serial number not in use.
NewNode(heap, key) ==
    <<key, CHOOSE g \in 0..Cardinality(DOMAIN heap) :
               /\ <<key, g>> \notin DOMAIN heap
               /\ \A h \in 0..(g - 1) : <<key, h>> \in DOMAIN heap>>

\* Garbage collection: the nodes neither in the tree nor held by a caller
\* (roots) are dropped.
Collect(z, roots) ==
    [z EXCEPT !.heap = [id \in {i \in DOMAIN z.heap : i \in Range(z.Radix) \/ i \in roots}
                            |-> z.heap[id]]]

\* Insert, up to the release of the zone lock: the in-zone check, then under
\* the lock ModTime and Find; with no exact match the new node is made,
\* filled and inserted and Insert returns (zd = Nil); with an exact match
\* the lock is released and zd is the node to edit.
insertLocate(z, r) ==
    LET name == RRPool[r].Name
    IN  IF ~isSubDomain(name)
        THEN [z |-> z, err |-> "OutOfZone", zd |-> Nil]
        ELSE LET key == toRadixName(name)
                 z1 == [z EXCEPT !.ModTime = @ + 1]
                 f == RadixFind(z1.Radix, key)
                 id == NewNode(z1.heap, key)
             IN  IF ~f.exact
                 THEN [z |-> [z1 EXCEPT
                                 !.Wildcard = IF IsWildcardName(name) THEN @ + 1 ELSE @,
                                 !.heap = MapPut(@, id, insertSwitch(NewZoneData(name), r)),
                                 !.Radix = RadixInsert(@, key, id)],
                       err |-> "nil", zd |-> Nil]
                 ELSE [z |-> z1, err |-> "nil", zd |-> f.node]

\* Insert, under the node's lock: the RR is added to the node found.
insertEdit(z, zd, r) == [z EXCEPT !.heap[zd] = insertSwitch(@, r)]

\* Insert, the whole call.
ZoneInsert(z, r) ==
    Value({IF a.zd = Nil THEN [z |-> a.z, err |-> a.err]
           ELSE [z |-> insertEdit(a.z, a.zd, r), err |-> "nil"] :
               a \in {insertLocate(z, r)}})

\* Remove, up to the release of the zone lock: ModTime and Find; with no
\* exact match Remove returns (zd = Nil).
removeLocate(z, r) ==
    LET f == RadixFind(z.Radix, toRadixName(RRPool[r].Name))
    IN  [z |-> [z EXCEPT !.ModTime = @ + 1],
         zd |-> IF f.exact THEN f.node ELSE Nil]

\* Remove, under the node's lock: the entries equal to r are removed.
removeEdit(z, zd, r) ==
    LET res == removeSwitch(z.heap[zd], r)
    IN  [z |-> [z EXCEPT !.heap[zd] = res.zd], remove |-> res.remove, panic |-> res.panic]

\* Remove, after an entry was removed: the wildcard count is decremented,
\* not below zero, when the RR's name is a wildcard, and the key is removed
\* from the tree when the node edited has no RRs and no signatures left.
removeFinish(z, zd, r) ==
    LET name == RRPool[r].Name
        w == IF IsWildcardName(name)
             THEN (IF z.Wildcard - 1 < 0 THEN 0 ELSE z.Wildcard - 1)
             ELSE z.Wildcard
        empty == DOMAIN z.heap[zd].RR = {} /\ DOMAIN z.heap[zd].Signatures = {}
    IN  [z EXCEPT !.Wildcard = w,
                  !.Radix = IF empty THEN RadixRemove(@, toRadixName(name)) ELSE @]

\* Remove, the whole call; err is "panic" when the range loop faults.
ZoneRemove(z, r) ==
    Value({IF a.zd = Nil THEN [z |-> a.z, err |-> "nil"]
           ELSE Value({IF b.panic THEN [z |-> b.z, err |-> "panic"]
                       ELSE IF ~b.remove THEN [z |-> b.z, err |-> "nil"]
                       ELSE [z |-> removeFinish(b.z, a.zd, r), err |-> "nil"] :
                           b \in {removeEdit(a.z, a.zd, r)}}) :
               a \in {removeLocate(z, r)}})

\* RemoveName, the whole call, under the zone lock.
ZoneRemoveName(z, s) ==
    [z EXCEPT !.ModTime = @ + 1,
              !.Radix = RadixRemove(@, toRadixName(s)),
              !.Wildcard = IF IsWildcardName(s)
                           THEN (IF @ - 1 < 0 THEN 0 ELSE @ - 1)
                           ELSE @]

\* RemoveRRset, up to the release of the zone lock.
removeRRsetLocate(z, s) ==
    LET f == RadixFind(z.Radix, toRadixName(s))
    IN  [z |-> [z EXCEPT !.ModTime = @ + 1],
         zd |-> IF f.exact THEN f.node ELSE Nil]

\* RemoveRRset, under the node's lock.
removeRRsetEdit(z, zd, t) == [z EXCEPT !.heap[zd] = removeRRsetSwitch(@, t)]

\* RemoveRRset, the whole call.
ZoneRemoveRRset(z, s, t) ==
    Value({IF a.zd = Nil THEN a.z ELSE removeRRsetEdit(a.z, a.zd, t) :
               a \in {removeRRsetLocate(z, s)}})

\* Find: the node and whether the match is exact.
ZoneFind(z, s) ==
    LET f == RadixFind(z.Radix, toRadixName(s))
    IN  IF f.node = Nil THEN [node |-> Nil, exact |-> FALSE] ELSE f

----------------------------------------------------------------------------
(* The sequential specification: one caller, one call at a time *)

Call(op, r, s, t, err) == [op |-> op, r |-> r, s |-> s, t |-> t, err |-> err]

\* The parts of the state the sequential specification leaves alone.
Idle == /\ thr = <<>>
        /\ nlock = {}
        /\ acked = <<>>
        /\ sg = <<>>
        /\ wk = <<>>
        /\ ch = <<>>

Init ==
    /\ zone = NewZone
    /\ last = Call("NewZone", 0, <<>>, 0, "nil")
    /\ Idle

\* A fault ends the program; ModTime bounds the number of calls.
CanCall == last.err # "panic" /\ zone.ModTime < MaxTime

Insert(r) ==
    /\ CanCall
    /\ \E a \in {ZoneInsert(zone, r)} :
           /\ zone' = a.z
           /\ last' = Call("Insert", r, RRPool[r].Name, RRPool[r].Rrtype, a.err)
    /\ UNCHANGED <<thr, nlock, acked, sg, wk, ch>>

Remove(r) ==
    /\ CanCall
    /\ \E a \in {ZoneRemove(zone, r)} :
           /\ zone' = Collect(a.z, {})
           /\ last' = Call("Remove", r, RRPool[r].Name, RRPool[r].Rrtype, a.err)
    /\ UNCHANGED <<thr, nlock, acked, sg, wk, ch>>

RemoveName(s) ==
    /\ CanCall
    /\ zone' = Collect(ZoneRemoveName(zone, s), {})
    /\ last' = Call("RemoveName", 0, s, 0, "nil")
    /\ UNCHANGED <<thr, nlock, acked, sg, wk, ch>>

RemoveRRset(s, t) ==
    /\ CanCall
    /\ zone' = ZoneRemoveRRset(zone, s, t)
    /\ last' = Call("RemoveRRset", 0, s, t, "nil")
    /\ UNCHANGED <<thr, nlock, acked, sg, wk, ch>>

Next ==
    \/ \E r \in SeqRRs : Insert(r)
    \/ \E r \in SeqRRs : Remove(r)
    \/ \E s \in NamePool : RemoveName(s)
    \/ \E s \in NamePool, t \in TypePool : RemoveRRset(s, t)

Spec == Init /\ [][Next]_vars

----------------------------------------------------------------------------
(* Properties of the mutators and Find, under Spec *)

\* Whether suf is a byte-wise suffix of s.
HasSuffix(s, suf) ==
    Len(suf) <= Len(s) /\ \A i \in 1..Len(suf) : s[Len(s) - Len(suf) + i] = suf[i]

\* A name is in the zone when, letter case aside, it is the origin or ends
\* with a dot and the origin (the names of the model hold no escaped dot).
NameInZone(n) ==
    LET l == ToLower(Fqdn(n))
    IN  l = Origin \/ HasSuffix(l, <<Dot>> \o Origin)

\* The node of the tree at a name's key, and whether there is one.
HasNode(z, n) == toRadixName(n) \in DOMAIN z.Radix

NodeAt(z, n) == z.heap[z.Radix[toRadixName(n)]]

\* The elements of a slice.
Elems(list) == {list[i] : i \in 1..Len(list)}

\* Whether a node holds the record r in the bucket of its type: the
\* signatures of its type covered for an RRSIG, the RRs of its type else.
Holds(zd, r) ==
    IF RRPool[r].Rrtype = TypeRRSIG
    THEN r \in Elems(MapGet(zd.Signatures, RRPool[r].TypeCovered))
    ELSE r \in Elems(MapGet(zd.RR, RRPool[r].Rrtype))

\* C2: an Insert of an RR whose owner is neither the origin nor below it
\* returns the out-of-zone error and changes nothing of the zone: no node,
\* not the wildcard count, not ModTime.
C2_OutOfZoneInsertChangesNothing ==
    [][(last'.op = "Insert" /\ ~NameInZone(last'.s))
           => (last'.err = "OutOfZone" /\ zone' = zone)]_vars

\* C2, reached: an out-of-zone Insert was refused on a zone that holds nodes.
C2_Witness ==
    /\ last.op = "Insert"
    /\ ~NameInZone(last.s)
    /\ last.err = "OutOfZone"
    /\ DOMAIN zone.Radix # {}
    /\ zone.ModTime > 0

\* The labels of a name, letter case aside.
LabelsOf(n) == SplitLabels(ToLower(n))

\* Whether name a is a proper ancestor of name m: a's labels end m's.
IsAncestor(a, m) ==
    LET la == LabelsOf(a)
        lm == LabelsOf(m)
    IN  /\ Len(la) < Len(lm)
        /\ \A i \in 1..Len(la) : la[i] = lm[Len(lm) - Len(la) + i]

\* The nodes of the tree whose name is a proper ancestor of m.
AncestorNodes(z, m) == {id \in Range(z.Radix) : IsAncestor(z.heap[id].Name, m)}

\* C3: after Insert(r) returned nil, Find of r's owner is exact and its node
\* holds r in the bucket of r's type; and Find of a name that has no node
\* of its own but has ancestors in the tree returns the nearest of them,
\* not exact.
C3_InsertThenFind ==
    /\ (last.op = "Insert" /\ last.err = "nil")
           => LET f == ZoneFind(zone, last.s)
              IN  f.exact /\ Holds(zone.heap[f.node], last.r)
    /\ \A m \in NamePool :
           (~HasNode(zone, m) /\ AncestorNodes(zone, m) # {})
               => LET f == ZoneFind(zone, m)
                  IN  /\ ~f.exact
                      /\ f.node \in AncestorNodes(zone, m)
                      /\ \A id \in AncestorNodes(zone, m) :
                             Len(zone.heap[id].Name) <= Len(zone.heap[f.node].Name)

\* C4: from any zone, for a record r its owner does not hold yet, Insert(r)
\* that returns nil followed by Remove(r) returns normally and leaves r's
\* owner as it was: no node if there was none, else the same RRs,
\* signatures and NonAuth.
C4_InsertRemoveRestores ==
    \A r \in RRs :
        LET a == ZoneInsert(zone, r)
            b == ZoneRemove(a.z, r)
            n == RRPool[r].Name
        IN  (a.err = "nil" /\ (HasNode(zone, n) => ~Holds(NodeAt(zone, n), r)))
                => /\ b.err = "nil"
                   /\ HasNode(b.z, n) = HasNode(zone, n)
                   /\ HasNode(zone, n) /\ HasNode(b.z, n)
                          => NodeAt(b.z, n) = NodeAt(zone, n)

\* The nodes of the tree whose leftmost label is "*".
WildcardNodes(z) ==
    {id \in Range(z.Radix) :
        LET l == SplitLabels(z.heap[id].Name) IN Len(l) > 0 /\ l[1] = <<Star>>}

\* C5: the wildcard count is not negative and is the number of nodes of the
\* tree whose leftmost label is "*".
C5_WildcardCount ==
    zone.Wildcard >= 0 /\ zone.Wildcard = Cardinality(WildcardNodes(zone))

\* C6: every node of the tree holds at least one RR or one signature.
C6_NoEmptyNode ==
    \A id \in Range(zone.Radix) :
        \/ \E t \in DOMAIN zone.heap[id].RR : Len(zone.heap[id].RR[t]) > 0
        \/ \E t \in DOMAIN zone.heap[id].Signatures : Len(zone.heap[id].Signatures[t]) > 0

\* C7: RemoveRRset(s, t) at a node removes the RRs of type t and leaves the
\* RRs of every other type and the signatures as they were; with t = RRSIG
\* it removes the signatures and leaves the RRs as they were.
C7_RemoveRRsetFrame ==
    [][(last'.op = "RemoveRRset" /\ HasNode(zone, last'.s))
           => LET old == NodeAt(zone, last'.s)
                  new == NodeAt(zone', last'.s)
                  t == last'.t
              IN  /\ HasNode(zone', last'.s)
                  /\ t = TypeRRSIG
                         => new.Signatures = <<>> /\ new.RR = old.RR
                  /\ t # TypeRRSIG
                         => /\ t \notin DOMAIN new.RR
                            /\ new.Signatures = old.Signatures
                            /\ \A u \in DOMAIN old.RR \ {t} :
                                   u \in DOMAIN new.RR /\ new.RR[u] = old.RR[u]]_vars

\* The slice of r's type at r's owner, the nil slice if there is none.
BucketOf(z, r) ==
    IF ~HasNode(z, RRPool[r].Name) THEN <<>>
    ELSE IF RRPool[r].Rrtype = TypeRRSIG
         THEN MapGet(NodeAt(z, RRPool[r].Name).Signatures, RRPool[r].TypeCovered)
         ELSE MapGet(NodeAt(z, RRPool[r].Name).RR, RRPool[r].Rrtype)

\* A slice without the entries equal to r.
RECURSIVE Without(_, _)
Without(list, r) ==
    IF list = <<>> THEN <<>>
    ELSE IF list[1] = r THEN Without(Tail(list), r)
         ELSE <<list[1]>> \o Without(Tail(list), r)

\* C8: Remove(r) of a record that its bucket holds twice or more returns
\* normally, and then the bucket holds r no more and holds its other entries
\* as before.
C8_RemoveDuplicates ==
    [][(last'.op = "Remove"
            /\ Cardinality({i \in DOMAIN BucketOf(zone, last'.r) :
                               BucketOf(zone, last'.r)[i] = last'.r}) >= 2)
           => /\ last'.err = "nil"
              /\ BucketOf(zone', last'.r) = Without(BucketOf(zone, last'.r), last'.r)]_vars

----------------------------------------------------------------------------
(* The concurrent specification: goroutines calling the mutators *)

\* The number of calling goroutines.
NumThreads == 2

Threads == 1..NumThreads

\* The records and names the goroutines use.
ConcRRs == {1, 2, 5}

ConcNames == {NameW}

\* A goroutine between calls, and inside a call: the call, the node zd it
\* found, and where it stands.
IdleThread ==
    [pc |-> "idle", op |-> "none", r |-> 0, s |-> <<>>, t |-> 0, zd |-> Nil, aimed |-> FALSE]

InCall(pc, op, r, s, t, zd) ==
    [pc |-> pc, op |-> op, r |-> r, s |-> s, t |-> t, zd |-> zd, aimed |-> FALSE]

\* The nodes goroutines hold a pointer to.
Held(th) == {th[i].zd : i \in DOMAIN th} \ {Nil}

\* Whether a removing call in progress is aimed at the record r: Remove at
\* r itself, RemoveName and RemoveRRset at r's owner.
AimedAt(c, r) ==
    \/ c.op = "Remove" /\ c.r = r
    \/ c.op \in {"RemoveName", "RemoveRRset"}
           /\ toRadixName(c.s) = toRadixName(RRPool[r].Name)

\* The bookkeeping of the calls. A record is "in" once its Insert returned
\* nil, unless a removing call aimed at it ran during the Insert (aimed) or
\* is still running; it is "out" from the start of any removing call aimed
\* at it.
AckInsert(a, th, r, aimed) ==
    [a EXCEPT ![r] = IF aimed \/ \E i \in DOMAIN th : AimedAt(th[i], r)
                     THEN "out" ELSE "in"]

AckRemove(a, c) == [q \in DOMAIN a |-> IF AimedAt(c, q) THEN "out" ELSE a[q]]

\* The start of the removing call c, noted in the Inserts in progress.
NoteRemove(th, c) ==
    [i \in DOMAIN th |->
        IF th[i].op = "Insert" /\ AimedAt(c, th[i].r)
        THEN [th[i] EXCEPT !.aimed = TRUE] ELSE th[i]]

ConcInit ==
    /\ zone = NewZone
    /\ last = Call("NewZone", 0, <<>>, 0, "nil")
    /\ thr = [i \in Threads |-> IdleThread]
    /\ nlock = {}
    /\ acked = [r \in RRs |-> "none"]
    /\ sg = <<>>
    /\ wk = <<>>
    /\ ch = <<>>

\* A goroutine may start a call.
CanStart(i) == thr[i].pc = "idle" /\ CanCall

\* Insert, the part under the zone lock.
ConcInsertLocate(i, r) ==
    /\ CanStart(i)
    /\ LET a == insertLocate(zone, r)
       IN  /\ zone' = a.z
           /\ IF a.zd = Nil
              THEN /\ thr' = thr
                   /\ last' = Call("Insert", r, RRPool[r].Name, RRPool[r].Rrtype, a.err)
                   /\ acked' = IF a.err = "nil" THEN AckInsert(acked, thr, r, FALSE)
                               ELSE acked
              ELSE /\ thr' = [thr EXCEPT ![i] =
                                  InCall("insertEdit", "Insert", r, RRPool[r].Name, 0, a.zd)]
                   /\ UNCHANGED <<last, acked>>
    /\ UNCHANGED <<nlock, sg, wk, ch>>

\* Insert, the part under the node's lock, and the return.
ConcInsertEdit(i) ==
    /\ thr[i].pc = "insertEdit"
    /\ last.err # "panic"
    /\ thr[i].zd \notin nlock
    /\ thr' = [thr EXCEPT ![i] = IdleThread]
    /\ zone' = Collect(insertEdit(zone, thr[i].zd, thr[i].r), Held(thr'))
    /\ last' = Call("Insert", thr[i].r, thr[i].s, RRPool[thr[i].r].Rrtype, "nil")
    /\ acked' = AckInsert(acked, thr', thr[i].r, thr[i].aimed)
    /\ UNCHANGED <<nlock, sg, wk, ch>>

\* Remove, the part under the zone lock.
ConcRemoveLocate(i, r) ==
    /\ CanStart(i)
    /\ LET a == removeLocate(zone, r)
           c == InCall("removeEdit", "Remove", r, RRPool[r].Name, 0, a.zd)
       IN  /\ zone' = a.z
           /\ acked' = AckRemove(acked, c)
           /\ IF a.zd = Nil
              THEN /\ thr' = NoteRemove(thr, c)
                   /\ last' = Call("Remove", r, RRPool[r].Name, RRPool[r].Rrtype, "nil")
              ELSE /\ thr' = [NoteRemove(thr, c) EXCEPT ![i] = c]
                   /\ last' = last
    /\ UNCHANGED <<nlock, sg, wk, ch>>

\* Remove, the switch under the node's lock: a fault ends the program, a
\* miss returns, a removal goes on with the node still locked.
ConcRemoveEdit(i) ==
    /\ thr[i].pc = "removeEdit"
    /\ last.err # "panic"
    /\ thr[i].zd \notin nlock
    /\ LET b == removeEdit(zone, thr[i].zd, thr[i].r)
           ret(err) == Call("Remove", thr[i].r, thr[i].s, RRPool[thr[i].r].Rrtype, err)
       IN  IF b.panic
           THEN /\ zone' = b.z
                /\ last' = ret("panic")
                /\ UNCHANGED <<thr, nlock>>
           ELSE IF ~b.remove
           THEN /\ thr' = [thr EXCEPT ![i] = IdleThread]
                /\ zone' = Collect(b.z, Held(thr'))
                /\ last' = ret("nil")
                /\ nlock' = nlock
           ELSE /\ zone' = b.z
                /\ thr' = [thr EXCEPT ![i].pc = "removeFinish"]
                /\ nlock' = nlock \cup {thr[i].zd}
                /\ last' = last
    /\ UNCHANGED <<acked, sg, wk, ch>>

\* Remove, the wildcard count and the removal of the emptied node from the
\* tree, under the node's lock alone, and the return.
ConcRemoveFinish(i) ==
    /\ thr[i].pc = "removeFinish"
    /\ last.err # "panic"
    /\ thr' = [thr EXCEPT ![i] = IdleThread]
    /\ zone' = Collect(removeFinish(zone, thr[i].zd, thr[i].r), Held(thr'))
    /\ nlock' = nlock \ {thr[i].zd}
    /\ last' = Call("Remove", thr[i].r, thr[i].s, RRPool[thr[i].r].Rrtype, "nil")
    /\ UNCHANGED <<acked, sg, wk, ch>>

\* RemoveName, all of it under the zone lock.
ConcRemoveName(i, s) ==
    /\ CanStart(i)
    /\ zone' = Collect(ZoneRemoveName(zone, s), Held(thr))
    /\ acked' = AckRemove(acked, InCall("idle", "RemoveName", 0, s, 0, Nil))
    /\ thr' = NoteRemove(thr, InCall("idle", "RemoveName", 0, s, 0, Nil))
    /\ last' = Call("RemoveName", 0, s, 0, "nil")
    /\ UNCHANGED <<nlock, sg, wk, ch>>

\* RemoveRRset, the part under the zone lock.
ConcRemoveRRsetLocate(i, s, t) ==
    /\ CanStart(i)
    /\ LET a == removeRRsetLocate(zone, s)
           c == InCall("rrsetEdit", "RemoveRRset", 0, s, t, a.zd)
       IN  /\ zone' = a.z
           /\ acked' = AckRemove(acked, c)
           /\ IF a.zd = Nil
              THEN /\ thr' = NoteRemove(thr, c)
                   /\ last' = Call("RemoveRRset", 0, s, t, "nil")
              ELSE /\ thr' = [NoteRemove(thr, c) EXCEPT ![i] = c]
                   /\ last' = last
    /\ UNCHANGED <<nlock, sg, wk, ch>>

\* RemoveRRset, the part under the node's lock, and the return.
ConcRemoveRRsetEdit(i) ==
    /\ thr[i].pc = "rrsetEdit"
    /\ last.err # "panic"
    /\ thr[i].zd \notin nlock
    /\ thr' = [thr EXCEPT ![i] = IdleThread]
    /\ zone' = Collect(removeRRsetEdit(zone, thr[i].zd, thr[i].t), Held(thr'))
    /\ last' = Call("RemoveRRset", 0, thr[i].s, thr[i].t, "nil")
    /\ UNCHANGED <<nlock, acked, sg, wk, ch>>

ConcNext ==
    \/ \E i \in Threads, r \in ConcRRs : ConcInsertLocate(i, r)
    \/ \E i \in Threads : ConcInsertEdit(i)
    \/ \E i \in Threads, r \in ConcRRs : ConcRemoveLocate(i, r)
    \/ \E i \in Threads : ConcRemoveEdit(i)
    \/ \E i \in Threads : ConcRemoveFinish(i)
    \/ \E i \in Threads, s \in ConcNames : ConcRemoveName(i, s)
    \/ \E i \in Threads, s \in ConcNames, t \in TypePool : ConcRemoveRRsetLocate(i, s, t)
    \/ \E i \in Threads : ConcRemoveRRsetEdit(i)

SpecConc == ConcInit /\ [][ConcNext]_vars

\* Every call has returned.
AllReturned == \A i \in Threads : thr[i].pc = "idle"

\* C1: once every call has returned, every record whose Insert returned nil
\* and at which no removing call was aimed since is held by the node that
\* Find reaches, exactly, at its owner.
C1_NoLostInsert ==
    (AllReturned /\ last.err # "panic")
        => \A r \in RRs :
               acked[r] = "in"
                   => LET f == ZoneFind(zone, RRPool[r].Name)
                      IN  f.exact /\ Holds(zone.heap[f.node], r)

----------------------------------------------------------------------------
(* ZoneData.Sign: the NSEC and the signatures of one node *)

\* Times are counted in days since the epoch and durations in days. year68
\* is 2^31 seconds, in days.
year68 == 24855

\* The SEP bit of a DNSKEY's Flags.
SEP == 1

\* The signing keys: a zone signing key and a key signing key (SEP set).
\* KeyTag is what DNSKEY.KeyTag() returns for the key.
KeyZ == [Name |-> NameApex, Flags |-> 256, Algorithm |-> 8, Ttl |-> 3600, KeyTag |-> 1]

KeyK == [Name |-> NameApex, Flags |-> 257, Algorithm |-> 8, Ttl |-> 3600, KeyTag |-> 2]

\* The orders in which a range over the keys map may visit the keys.
KeyOrders == {<<>>, <<KeyZ>>, <<KeyK>>, <<KeyZ, KeyK>>, <<KeyK, KeyZ>>}

\* The durations of a SignatureConfig, those of DefaultSignatureConfig in
\* days: four weeks, three days, half a day rounded up, 300 seconds rounded
\* down.
Durations == [Validity |-> 28, Refresh |-> 3, Jitter |-> 1, InceptionOffset |-> 0]

\* timeToUint32, on a time t in days since the epoch.
timeToUint32(t) ==
    LET m == (t \div year68) - 1
        mod == IF m < 0 THEN 0 ELSE m
    IN  (t - mod * year68) % (2 * year68)

\* uint32ToTime at the clock time now: the epoch plus (mod * year68) * t.
uint32ToTime(t, now) ==
    LET m == (now \div year68) - 1
        mod == IF m < 0 THEN 0 ELSE m
    IN  0 + (mod * year68) * t

\* jitterDuration(d): jitter is rand.Intn(d), here rnd; rand.Intn(1) is 0,
\* never 1, so the jitter is returned negated.
jitterDuration(d, rnd) == -rnd

\* The records the signer makes live in a store of their own, after the
\* callers' records: the pointer to the i-th record made is Len(RRPool) + i.
RRrec(made, p) == IF p <= Len(RRPool) THEN RRPool[p] ELSE made[p - Len(RRPool)]

MadePtr(i) == Len(RRPool) + i

\* A set of type codes as a sorted slice (sort.Sort).
RECURSIVE SortedSeq(_)
SortedSeq(S) ==
    IF S = {} THEN <<>>
    ELSE LET m == CHOOSE x \in S : \A y \in S : x <= y
         IN  <<m>> \o SortedSeq(S \ {m})

\* The type bitmap computed for a node: NSEC, RRSIG and the types of its RR
\* map, sorted.
nodeBitmap(zd) == SortedSeq({TypeNSEC, TypeRRSIG} \cup DOMAIN zd.RR)

\* The search for a type t in an NSEC's bitmap, which stops at the first
\* entry greater than t.
RECURSIVE bitmapFound(_, _, _)
bitmapFound(bm, i, t) ==
    IF i > Len(bm) THEN FALSE
    ELSE IF bm[i] = t THEN TRUE
    ELSE IF bm[i] > t THEN FALSE
    ELSE bitmapFound(bm, i + 1, t)

\* bitmapEqual: every type of the RR map is found in the NSEC's bitmap.
bitmapEqual(zd, bm) == \A t \in DOMAIN zd.RR : bitmapFound(bm, 1, t)

\* The NSEC part of ZoneData.Sign on the node zd with the store made: an
\* NSEC there is pointed to next and given the computed bitmap, its
\* signatures dropped, when its NextDomain differs or the bitmaps are found
\* unequal; with none, one is made. The result is the node and the store.
signNsec(zd, made, next, minttl) ==
    IF TypeNSEC \in DOMAIN zd.RR
    THEN LET p == zd.RR[TypeNSEC][1]
             n == RRrec(made, p)
         IN  IF n.NextDomain # next \/ ~bitmapEqual(zd, n.TypeBitMap)
             THEN [zd |-> [zd EXCEPT !.Signatures = MapPut(@, TypeNSEC, <<>>)],
                   made |-> [made EXCEPT ![p - Len(RRPool)] =
                                [n EXCEPT !.NextDomain = next,
                                          !.TypeBitMap = nodeBitmap(zd)]]]
             ELSE [zd |-> zd, made |-> made]
    ELSE LET nsec == [Name |-> zd.Name, Rrtype |-> TypeNSEC, TypeCovered |-> 0,
                      Ttl |-> minttl, NextDomain |-> next,
                      TypeBitMap |-> nodeBitmap(zd)]
         IN  [zd |-> [zd EXCEPT !.RR = MapPut(@, TypeNSEC, <<MadePtr(Len(made) + 1)>>),
                                !.Signatures = MapPut(@, TypeNSEC, <<>>)],
              made |-> Append(made, nsec)]

\* signatures: the index and the pointer of the first signature of the
\* slice with the key tag; index 0 and pointer 0 (nil) when there is none.
RECURSIVE signaturesLoop(_, _, _, _)
signaturesLoop(sigs, i, keytag, made) ==
    IF i > Len(sigs) THEN [j |-> 0, q |-> 0]
    ELSE IF RRrec(made, sigs[i]).KeyTag = keytag THEN [j |-> i, q |-> sigs[i]]
    ELSE signaturesLoop(sigs, i + 1, keytag, made)

signatures(sigs, keytag, made) == signaturesLoop(sigs, 1, keytag, made)

\* The test of ZoneData.Sign for a signature to make anew or to drop:
\* now.Sub(uint32ToTime(Expiration)) < config.Refresh.
nearExpiry(sig, now, config) ==
    now - uint32ToTime(sig.Expiration, now) < config.Refresh

\* One turn of the inner loop of ZoneData.Sign, for the key k and the RRset
\* of type t, on st = [zd, made, err]: the RRset is passed over for a key
\* with the SEP bit unless it is a DNSKEY RRset, and at a NonAuth node
\* unless it is a DS or NSEC RRset; a signature is made when the slice of t
\* has none with the key's tag or the one it has is near expiry; making it
\* may fail (fails); the new signature replaces the old or is appended.
signOne(st, k, t, now, config, fails, rnd) ==
    LET zd == st.zd
        first == RRrec(st.made, zd.RR[t][1])
        sigs == MapGet(zd.Signatures, t)
        f == signatures(sigs, k.KeyTag, st.made)
        s == [Name |-> zd.Name, Rrtype |-> TypeRRSIG, TypeCovered |-> first.Rrtype,
              SignerName |-> k.Name, Ttl |-> k.Ttl, Algorithm |-> k.Algorithm,
              KeyTag |-> k.KeyTag,
              Inception |-> timeToUint32(now - config.InceptionOffset),
              Expiration |-> timeToUint32(now + jitterDuration(config.Jitter, rnd)
                                              + config.Validity)]
        ptr == MadePtr(Len(st.made) + 1)
    IN  IF st.err # "nil" THEN st
        ELSE IF (k.Flags \div SEP) % 2 = 1 /\ first.Rrtype # TypeDNSKEY THEN st
        ELSE IF zd.NonAuth /\ first.Rrtype \notin {TypeDS, TypeNSEC} THEN st
        ELSE IF f.q # 0 /\ ~nearExpiry(RRrec(st.made, f.q), now, config) THEN st
        ELSE IF fails THEN [st EXCEPT !.err = "error"]
        ELSE [zd |-> [zd EXCEPT !.Signatures =
                         MapPut(@, t, IF f.q # 0 THEN [sigs EXCEPT ![f.j] = ptr]
                                      ELSE Append(sigs, ptr))],
              made |-> Append(st.made, s),
              err |-> "nil"]

\* The two loops of ZoneData.Sign over the keys, in the order ks, and over
\* the types of the RR map: i counts the keys, ts holds the types still to
\* visit for the key i. No turn reads what a turn for another type wrote,
\* so the types are visited in increasing order.
RECURSIVE signLoop(_, _, _, _, _, _, _, _)
signLoop(st, ks, i, ts, now, config, fails, rnd) ==
    IF i > Len(ks) THEN st
    ELSE IF ts = <<>>
         THEN signLoop(st, ks, i + 1, SortedSeq(DOMAIN st.zd.RR), now, config, fails, rnd)
         ELSE Value({signLoop(s1, ks, i, Tail(ts), now, config, fails, rnd) :
                        s1 \in {signOne(st, ks[i], Head(ts), now, config, fails, rnd)}})

\* The inner loop of the last part of ZoneData.Sign over one slice of
\* signatures: the loop runs over the n entries the slice had at its start
\* and reads them from the backing array arr; each entry near expiry is cut
\* out in place, append(s[:i1], s[i1+1:]...), which faults when i1+1
\* exceeds the slice's current length cur.
RECURSIVE rangeDrop(_, _, _, _, _, _, _)
rangeDrop(arr, n, cur, i, made, now, config) ==
    IF i > n THEN [list |-> Slice(arr, 1, cur), panic |-> FALSE]
    ELSE IF nearExpiry(RRrec(made, arr[i]), now, config)
         THEN IF i > cur
              THEN [list |-> Slice(arr, 1, cur), panic |-> TRUE]
              ELSE rangeDrop(
                       [j \in 1..n |-> IF j >= i /\ j < cur THEN arr[j + 1] ELSE arr[j]],
                       n, cur - 1, i + 1, made, now, config)
         ELSE rangeDrop(arr, n, cur, i + 1, made, now, config)

\* The last part of ZoneData.Sign: every slice of the Signatures map, the
\* types ts still to visit.
RECURSIVE dropLoop(_, _, _, _)
dropLoop(st, ts, now, config) ==
    IF ts = <<>> \/ st.err # "nil" THEN st
    ELSE LET t == Head(ts)
             old == st.zd.Signatures[t]
         IN  Value({dropLoop([zd |-> [st.zd EXCEPT !.Signatures = MapPut(@, t, res.list)],
                              made |-> st.made,
                              err |-> IF res.panic THEN "panic" ELSE "nil"],
                             Tail(ts), now, config) :
                        res \in {rangeDrop(old, Len(old), Len(old), 1, st.made,
                                           now, config)}})

\* ZoneData.Sign on the node zd with the store made: next is the name of
\* the next node, ks the keys in the order visited, now the clock, fails
\* whether making a signature fails at this node, rnd the random jitter.
\* The result is the node, the store and the outcome: "nil", "error" (the
\* error of RRSIG.Sign) or "panic".
ZoneDataSign(zd, made, next, ks, config, minttl, now, fails, rnd) ==
    Value({Value({IF b.err # "nil" THEN b
                  ELSE dropLoop(b, SortedSeq(DOMAIN b.zd.Signatures), now, config) :
                      b \in {signLoop([zd |-> a.zd, made |-> a.made, err |-> "nil"],
                                      ks, 1, SortedSeq(DOMAIN a.zd.RR), now, config,
                                      fails, rnd)}}) :
               a \in {signNsec(zd, made, next, minttl)}})

----------------------------------------------------------------------------
(* Zone.Sign and signerRoutine: the producer, the workers, the channels *)

\* The largest SignerRoutines of the model.
MaxWorkers == 2

\* The most nodes at which making a signature fails in one pass.
MaxFailing == 1

\* runtime.NumCPU() of the machine.
NumCPU == 1

\* A SignatureConfig with the durations of the model. DefaultSignatureConfig
\* has HonorSepFlag = true and SignerRoutines = runtime.NumCPU() + 1.
SignatureConfig(honor, routines) ==
    [isNil |-> FALSE,
     Validity |-> Durations.Validity, Refresh |-> Durations.Refresh,
     Jitter |-> Durations.Jitter, InceptionOffset |-> Durations.InceptionOffset,
     HonorSepFlag |-> honor, SignerRoutines |-> routines]

DefaultSignatureConfig == SignatureConfig(TRUE, NumCPU + 1)

\* The config argument of Sign: nil, or a config of the caller's, whose
\* SignerRoutines may be left unset (zero).
NilConfig == [isNil |-> TRUE]

ConfigArgs ==
    {NilConfig, SignatureConfig(FALSE, 1)}
        \cup {SignatureConfig(TRUE, n) : n \in 0..MaxWorkers}

\* The keys argument of Sign, a map, as the set of its keys; and the orders
\* in which a range over it may visit them.
KeyArgs == {{}, {KeyZ}, {KeyK}, {KeyZ, KeyK}}

KeyOrdersOf(keys) == {ks \in KeyOrders : {ks[i] : i \in 1..Len(ks)} = keys}

\* The times of the model, in days since the epoch: a first signing, and
\* later times at which a signature of the first has most of its validity
\* left, less than Refresh left, and none.
Clock == <<20000, 20001, 20026, 20030>>

\* The clock during a pass.
PassTime == Clock[1]

\* The zones a pass starts from are built by Insert: the apex records (none,
\* only an NS or an SOA under the origin's name, an SOA under its upper-case
\* name) and the first few of the records of other names.
SignApexChoices == {<<>>, <<14>>, <<11>>, <<12>>}

SignExtras == <<7, 17, 1>>

RECURSIVE InsertAll(_, _)
InsertAll(z, rs) ==
    IF rs = <<>> THEN z ELSE InsertAll(ZoneInsert(z, Head(rs)).z, Tail(rs))

\* The Name of the node at a key of the tree.
NameOfKey(z, k) == z.heap[z.Radix[k]].Name

\* The state of a pass before Sign is called: config and keys are the
\* arguments, W the SignerRoutines and minttl the Minttl of the config in
\* use once Sign has started (the Minttl of an SOA is named by the SOA),
\* failAt the nodes at which making a signature fails, made the store of
\* the records the signer makes.
NoPass(config, keys, failAt) ==
    [pc |-> "start", config |-> config, keys |-> keys, W |-> 0, minttl |-> 0,
     made |-> <<>>, failAt |-> failAt, next |-> <<>>,
     err |-> <<>>, ret |-> [kind |-> "none", at |-> <<>>], soa |-> FALSE]

\* What Sign returns: nil, ErrSoa, or the error of signing the node at a key.
\* An error variable holds the key, and the empty key for nil.
Returned(kind, at) == [kind |-> kind, at |-> at]

SignInit ==
    /\ \E a \in SignApexChoices, k \in 0..Len(SignExtras) :
           zone = InsertAll(NewZone, a \o SubSeq(SignExtras, 1, k))
    /\ \E c \in ConfigArgs, keys \in KeyArgs, f \in SUBSET (DOMAIN zone.Radix) :
           /\ Cardinality(f) <= MaxFailing
           /\ sg = NoPass(c, keys, f)
    /\ wk = <<>>
    /\ ch = [rad |-> <<>>, radClosed |-> FALSE, errClosed |-> FALSE, wg |-> 0,
             reported |-> <<>>, once |-> {}, again |-> {}]
    /\ last = Call("NewZone", 0, <<>>, 0, "nil")
    /\ thr = <<>>
    /\ nlock = {}
    /\ acked = <<>>

\* A fault in any goroutine ends the program.
NoFault == sg.pc # "panic" /\ \A w \in DOMAIN wk : wk[w].pc # "panic"

\* The capacity of radChan.
RadCap == sg.W * 2

\* Sign up to the first send: the zone lock, ModTime, the default config for
\* a nil one, the channels, the workers, the apex. Without a node at the
\* origin's key Sign returns ErrSoa; without an SOA at the apex reading its
\* Minttl faults.
SignStart ==
    /\ sg.pc = "start"
    /\ zone' = [zone EXCEPT !.ModTime = @ + 1]
    /\ LET config == IF sg.config.isNil THEN DefaultSignatureConfig ELSE sg.config
           W == config.SignerRoutines
           apex == RadixFind(zone.Radix, toRadixName(Origin))
       IN  /\ wk' = [w \in 1..W |-> [pc |-> "recv", data |-> <<>>]]
           /\ ch' = [ch EXCEPT !.wg = W]
           /\ IF ~apex.exact
              THEN sg' = [sg EXCEPT !.pc = "done", !.W = W,
                                    !.ret = Returned("ErrSoa", <<>>)]
              ELSE IF MapGet(zone.heap[apex.node].RR, TypeSOA) = <<>>
              THEN sg' = [sg EXCEPT !.pc = "panic", !.W = W]
              ELSE sg' = [sg EXCEPT !.pc = "sendApex", !.W = W, !.soa = TRUE,
                                    !.minttl = zone.heap[apex.node].RR[TypeSOA][1],
                                    !.next = RadixNext(zone.Radix, toRadixName(Origin))]
    /\ UNCHANGED <<last, thr, nlock, acked>>

\* A node is handed to the workers: once holds the nodes sent at least
\* once, again those sent more than once.
Sent(c, k) ==
    [c EXCEPT !.rad = Append(@, k),
              !.once = @ \cup {k},
              !.again = IF k \in c.once THEN @ \cup {k} ELSE @]

\* radChan <- apex. With capacity zero the send waits for a receiver, and
\* capacity zero means that there is no worker.
SignSendApex ==
    /\ sg.pc = "sendApex"
    /\ NoFault
    /\ Len(ch.rad) < RadCap
    /\ ch' = Sent(ch, toRadixName(Origin))
    /\ sg' = [sg EXCEPT !.pc = "loop"]
    /\ UNCHANGED <<zone, last, thr, nlock, acked, wk>>

\* The loop's condition is false: the next node's Name is Origin.
SignLoopExit ==
    /\ sg.pc = "loop"
    /\ NoFault
    /\ NameOfKey(zone, sg.next) = Origin
    /\ sg' = [sg EXCEPT !.pc = "closeRad"]
    /\ UNCHANGED <<zone, last, thr, nlock, acked, wk, ch>>

\* The select receives from errChan the error a worker w is sending, and
\* the loop is left; w returns.
SignRecvErr(w) ==
    /\ sg.pc = "loop"
    /\ NoFault
    /\ NameOfKey(zone, sg.next) # Origin
    /\ wk[w].pc = "sendErr"
    /\ ~ch.errClosed
    /\ sg' = [sg EXCEPT !.pc = "closeRad", !.err = wk[w].data]
    /\ wk' = [wk EXCEPT ![w].pc = "done"]
    /\ ch' = [ch EXCEPT !.wg = @ - 1]
    /\ UNCHANGED <<zone, last, thr, nlock, acked>>

\* The select finds no worker sending and takes its default.
SignSelectDefault ==
    /\ sg.pc = "loop"
    /\ NoFault
    /\ NameOfKey(zone, sg.next) # Origin
    /\ \A w \in DOMAIN wk : wk[w].pc # "sendErr"
    /\ sg' = [sg EXCEPT !.pc = "send"]
    /\ UNCHANGED <<zone, last, thr, nlock, acked, wk, ch>>

\* radChan <- next; next = next.Next()
SignSend ==
    /\ sg.pc = "send"
    /\ NoFault
    /\ Len(ch.rad) < RadCap
    /\ ch' = Sent(ch, sg.next)
    /\ sg' = [sg EXCEPT !.pc = "loop", !.next = RadixNext(zone.Radix, sg.next)]
    /\ UNCHANGED <<zone, last, thr, nlock, acked, wk>>

\* close(radChan)
SignCloseRad ==
    /\ sg.pc = "closeRad"
    /\ NoFault
    /\ ch' = [ch EXCEPT !.radClosed = TRUE]
    /\ sg' = [sg EXCEPT !.pc = "closeErr"]
    /\ UNCHANGED <<zone, last, thr, nlock, acked, wk>>

\* close(errChan)
SignCloseErr ==
    /\ sg.pc = "closeErr"
    /\ NoFault
    /\ ch' = [ch EXCEPT !.errClosed = TRUE]
    /\ sg' = [sg EXCEPT !.pc = "check"]
    /\ UNCHANGED <<zone, last, thr, nlock, acked, wk>>

\* if err != nil { return err }
SignCheckErr ==
    /\ sg.pc = "check"
    /\ NoFault
    /\ sg' = IF sg.err # <<>>
             THEN [sg EXCEPT !.pc = "done", !.ret = Returned("error", sg.err)]
             ELSE [sg EXCEPT !.pc = "wait"]
    /\ UNCHANGED <<zone, last, thr, nlock, acked, wk, ch>>

\* wg.Wait(); return nil
SignWait ==
    /\ sg.pc = "wait"
    /\ NoFault
    /\ ch.wg = 0
    /\ sg' = [sg EXCEPT !.pc = "done", !.ret = Returned("nil", <<>>)]
    /\ UNCHANGED <<zone, last, thr, nlock, acked, wk, ch>>

\* A worker receives from radChan: a node if one is queued, else, the
\* channel closed, it returns.
WorkerRecv(w) ==
    /\ w \in DOMAIN wk
    /\ wk[w].pc = "recv"
    /\ NoFault
    /\ Len(ch.rad) > 0 \/ ch.radClosed
    /\ IF Len(ch.rad) > 0
       THEN /\ wk' = [wk EXCEPT ![w] = [pc |-> "sign", data |-> Head(ch.rad)]]
            /\ ch' = [ch EXCEPT !.rad = Tail(@)]
       ELSE /\ wk' = [wk EXCEPT ![w].pc = "done"]
            /\ ch' = [ch EXCEPT !.wg = @ - 1]
    /\ UNCHANGED <<zone, last, thr, nlock, acked, sg>>

\* Whether making a signature (RRSIG.Sign) fails at the node at key k.
signFails(k) == k \in sg.failAt

\* The config in use by the workers.
ConfigInUse == IF sg.config.isNil THEN DefaultSignatureConfig ELSE sg.config

\* A worker signs its node, ZoneData.Sign under the node's lock, with the
\* name of the node that follows it; on an error it goes on to send it on
\* errChan.
WorkerSign(w) ==
    /\ w \in DOMAIN wk
    /\ wk[w].pc = "sign"
    /\ NoFault
    /\ zone.Radix[wk[w].data] \notin nlock
    /\ \E ks \in KeyOrdersOf(sg.keys), rnd \in 0..(ConfigInUse.Jitter - 1) :
           \E res \in {ZoneDataSign(zone.heap[zone.Radix[wk[w].data]], sg.made,
                                    NameOfKey(zone, RadixNext(zone.Radix, wk[w].data)),
                                    ks, ConfigInUse, sg.minttl, PassTime,
                                    signFails(wk[w].data), rnd)} :
               /\ zone' = [zone EXCEPT !.heap[zone.Radix[wk[w].data]] = res.zd]
               /\ sg' = [sg EXCEPT !.made = res.made]
               /\ wk' = [wk EXCEPT ![w].pc = CASE res.err = "nil" -> "recv"
                                              [] res.err = "error" -> "sendErr"
                                              [] OTHER -> "panic"]
               /\ ch' = IF res.err = "error"
                        THEN [ch EXCEPT !.reported = Append(@, wk[w].data)]
                        ELSE ch
    /\ UNCHANGED <<last, thr, nlock, acked>>

\* A worker's send on errChan, the channel closed, faults.
WorkerSendClosed(w) ==
    /\ w \in DOMAIN wk
    /\ wk[w].pc = "sendErr"
    /\ NoFault
    /\ ch.errClosed
    /\ wk' = [wk EXCEPT ![w].pc = "panic"]
    /\ UNCHANGED <<zone, last, thr, nlock, acked, sg, ch>>

Producer ==
    \/ SignStart
    \/ SignSendApex
    \/ SignLoopExit
    \/ \E w \in DOMAIN wk : SignRecvErr(w)
    \/ SignSelectDefault
    \/ SignSend
    \/ SignCloseRad
    \/ SignCloseErr
    \/ SignCheckErr
    \/ SignWait

Worker(w) ==
    \/ WorkerRecv(w)
    \/ WorkerSign(w)
    \/ WorkerSendClosed(w)

SignNext == Producer \/ \E w \in 1..MaxWorkers : Worker(w)

SpecSign == SignInit /\ [][SignNext]_vars

\* Fair scheduling: the producer and every worker take a step they can take.
SpecSignFair ==
    /\ SignInit
    /\ [][SignNext]_vars
    /\ WF_vars(Producer)
    /\ \A w \in 1..MaxWorkers : WF_vars(Worker(w))

\* C9: with an SOA at the apex and at least one worker, Sign returns in the
\* end, nil or an error, whatever the case of the owner names and wherever
\* signing fails.
C9_SignReturns ==
    (sg.W >= 1 /\ sg.soa) ~> (sg.ret.kind # "none" \/ ~NoFault)

\* Signing has failed at some node during the pass.
SigningFailed == ch.reported # <<>>

\* C10: when signing has failed at a node, no goroutine faults, and when
\* Sign returns, it returns the first error a worker reported.
C10_FailureIsReturned ==
    SigningFailed
        => /\ NoFault
           /\ sg.ret.kind # "none" => sg.ret = Returned("error", Head(ch.reported))

\* Whether the zone's apex node exists and holds an SOA RRset.
ApexHasSoa(z) ==
    LET f == RadixFind(z.Radix, toRadixName(Origin))
    IN  f.exact /\ MapGet(z.heap[f.node].RR, TypeSOA) # <<>>

\* C11: Sign on a zone without an apex SOA, be it that the origin has no node
\* or that its node holds no SOA, returns ErrSoa, without a fault and with
\* every node as it was.
C11_MissingSoa ==
    [][(sg.pc = "start" /\ ~ApexHasSoa(zone))
           => /\ sg'.ret = Returned("ErrSoa", <<>>)
              /\ sg'.pc = "done"
              /\ zone'.heap = zone.heap
              /\ zone'.Radix = zone.Radix]_vars

\* C19: with a config whose SignerRoutines is zero, Sign on a zone with an
\* apex SOA has started runtime.NumCPU() + 1 workers.
C19_UnsetRoutinesDefault ==
    (sg.soa /\ ~sg.config.isNil /\ sg.config.SignerRoutines = 0)
        => Len(wk) = NumCPU + 1

\* The walk has come round to the origin: the loop was left by its
\* condition, not by an error.
WalkDone ==
    sg.pc \in {"closeRad", "closeErr", "check", "wait", "done"}
        /\ sg.soa /\ sg.err = <<>>

\* C20: no node is handed to the workers twice, and when the walk has come
\* round to the origin every node of the tree has been handed to them.
C20_EachNodeOnce ==
    /\ ch.again = {}
    /\ WalkDone => ch.once = DOMAIN zone.Radix

----------------------------------------------------------------------------
(* The NSEC chain and the signatures after a pass *)

\* DNSSEC canonical order of names, a before b: the labels, letter case
\* aside, are compared from the right; the first pair that differs decides,
\* byte-wise, and a name comes before the names it ends.
CanonicalLess(a, b) ==
    LET la == LabelsOf(a)
        lb == LabelsOf(b)
    IN  \E i \in 1..(Len(la) + 1) :
            /\ i <= Len(lb)
            /\ \A j \in 1..(i - 1) : la[Len(la) + 1 - j] = lb[Len(lb) + 1 - j]
            /\ \/ i = Len(la) + 1
               \/ StrLess(la[Len(la) + 1 - i], lb[Len(lb) + 1 - i])

\* The names of the nodes of the tree.
NodeNames(z) == {z.heap[id].Name : id \in Range(z.Radix)}

\* The name that follows n among the names N in canonical order, the first
\* of them after the last.
CanonicalSuccessor(N, n) ==
    LET after == {m \in N : CanonicalLess(n, m)}
        from == IF after = {} THEN N ELSE after
    IN  CHOOSE m \in from : \A o \in from \ {m} : CanonicalLess(m, o)

\* Sign has returned nil and no goroutine has faulted.
PassReturnedNil == sg.ret.kind = "nil" /\ NoFault

\* C12: after a pass that returned nil every node has exactly one NSEC, and
\* its NextDomain is the name of the node that follows it in canonical order
\* (the apex after the last), so the chain is one cycle through all nodes.
C12_NsecChain ==
    PassReturnedNil
        => \A id \in Range(zone.Radix) :
               LET ns == MapGet(zone.heap[id].RR, TypeNSEC)
               IN  /\ Len(ns) = 1
                   /\ RRrec(sg.made, ns[1]).NextDomain
                          = CanonicalSuccessor(NodeNames(zone), zone.heap[id].Name)

\* The same with the order of the radix keys in place of canonical order.
C12_NsecChainKeyOrder ==
    PassReturnedNil
        => \A k \in DOMAIN zone.Radix :
               LET ns == MapGet(zone.heap[zone.Radix[k]].RR, TypeNSEC)
               IN  /\ Len(ns) = 1
                   /\ RRrec(sg.made, ns[1]).NextDomain
                          = NameOfKey(zone, RadixNext(zone.Radix, k))

\* Whether the RRset of type t at a node is authoritative: any RRset of a
\* node that is not a delegation, DS and NSEC of one that is.
Authoritative(zd, t) == ~zd.NonAuth \/ t \in {TypeDS, TypeNSEC}

\* Whether a key has the SEP flag.
HasSep(k) == (k.Flags \div SEP) % 2 = 1

\* The SEP rule: under HonorSepFlag a key with the SEP flag signs only the
\* DNSKEY RRset.
SepAllows(config, k, t) == ~(config.HonorSepFlag /\ HasSep(k) /\ t # TypeDNSKEY)

\* Whether the node's signatures for type t hold an RRSIG with the key tag
\* of k.
SignedBy(zd, t, k, made) ==
    LET sigs == MapGet(zd.Signatures, t)
    IN  \E i \in 1..Len(sigs) : RRrec(made, sigs[i]).KeyTag = k.KeyTag

\* C13: after a pass that returned nil, every authoritative RRset of every
\* node, its NSEC included, has an RRSIG with the key tag of every signing
\* key that the SEP rule allows for its type.
C13_EveryKeySigns ==
    PassReturnedNil
        => \A id \in Range(zone.Radix) :
               \A t \in DOMAIN zone.heap[id].RR, k \in sg.keys :
                   (Authoritative(zone.heap[id], t) /\ SepAllows(ConfigInUse, k, t))
                       => SignedBy(zone.heap[id], t, k, sg.made)

\* The same for the configs with HonorSepFlag set.
C13_EveryKeySignsHonoring ==
    (PassReturnedNil /\ ConfigInUse.HonorSepFlag)
        => \A id \in Range(zone.Radix) :
               \A t \in DOMAIN zone.heap[id].RR, k \in sg.keys :
                   (Authoritative(zone.heap[id], t) /\ SepAllows(ConfigInUse, k, t))
                       => SignedBy(zone.heap[id], t, k, sg.made)

----------------------------------------------------------------------------
(* ZoneData.Sign called on one node, again and again as time passes *)

\* The most calls of ZoneData.Sign on the node.
MaxSigns == 3

\* The records of the node: an A record; an A record and a DNSKEY; a
\* delegation, NS and DS.
NodeChoices == {<<1>>, <<1, 16>>, <<3, 15>>}

\* The most Insert and Remove calls on the node, and their records: the A
\* record and the DNSKEY.
MaxEdits == 2

EditRRs == {16}

\* The node signed.
NodeId == zone.Radix[toRadixName(NameW)]

\* The next argument of ZoneData.Sign.
NextArgs == {NameApex, NameAW}

NodeInit ==
    /\ \E c \in NodeChoices : zone = InsertAll(NewZone, c)
    /\ \E h \in BOOLEAN, keys \in KeyArgs :
           sg = [config |-> SignatureConfig(h, NumCPU + 1), keys |-> keys,
                 made |-> <<>>, clock |-> 1, calls |-> 0, edits |-> 0]
    /\ last = Call("NewZone", 0, <<>>, 0, "nil")
    /\ thr = <<>>
    /\ nlock = {}
    /\ acked = <<>>
    /\ wk = <<>>
    /\ ch = <<>>

\* One call of ZoneData.Sign on the node, at the time of the clock; making
\* a signature may fail.
NodeSign ==
    /\ last.err # "panic"
    /\ sg.calls < MaxSigns
    /\ \E ks \in KeyOrdersOf(sg.keys), rnd \in 0..(sg.config.Jitter - 1),
          fails \in BOOLEAN, next \in NextArgs :
           LET res == ZoneDataSign(zone.heap[NodeId], sg.made, next, ks, sg.config,
                                   0, Clock[sg.clock], fails, rnd)
           IN  /\ zone' = [zone EXCEPT !.heap[NodeId] = res.zd]
               /\ sg' = [sg EXCEPT !.made = res.made, !.calls = @ + 1]
               /\ last' = Call("Sign", 0, next, Clock[sg.clock], res.err)
    /\ UNCHANGED <<thr, nlock, acked, wk, ch>>

\* Time passes.
NodeTick ==
    /\ sg.clock < Len(Clock)
    /\ sg' = [sg EXCEPT !.clock = @ + 1]
    /\ UNCHANGED <<zone, last, thr, nlock, acked, wk, ch>>

\* Insert and Remove of a record of the node between two calls of
\* ZoneData.Sign: the node holds its NSEC by then and stays in the tree.
NodeInsert(r) ==
    /\ last.err # "panic"
    /\ sg.calls >= 1
    /\ sg.edits < MaxEdits
    /\ \E a \in {ZoneInsert(zone, r)} :
           /\ zone' = a.z
           /\ last' = Call("Insert", r, RRPool[r].Name, RRPool[r].Rrtype, a.err)
    /\ sg' = [sg EXCEPT !.edits = @ + 1]
    /\ UNCHANGED <<thr, nlock, acked, wk, ch>>

NodeRemove(r) ==
    /\ last.err # "panic"
    /\ sg.calls >= 1
    /\ sg.edits < MaxEdits
    /\ \E a \in {ZoneRemove(zone, r)} :
           /\ zone' = Collect(a.z, {})
           /\ last' = Call("Remove", r, RRPool[r].Name, RRPool[r].Rrtype, a.err)
    /\ sg' = [sg EXCEPT !.edits = @ + 1]
    /\ UNCHANGED <<thr, nlock, acked, wk, ch>>

NodeNext ==
    \/ NodeSign
    \/ NodeTick
    \/ \E r \in EditRRs : NodeInsert(r)
    \/ \E r \in EditRRs : NodeRemove(r)

SpecNode == NodeInit /\ [][NodeNext]_vars

\* The last call of ZoneData.Sign on the node returned nil.
NodeSigned == last.op = "Sign" /\ last.err = "nil"

\* C14: the split between key-signing and zone-signing keys follows
\* HonorSepFlag. With the flag set, a key with the SEP flag has signed only
\* the DNSKEY RRset; with the flag clear, every key, SEP or not, has signed
\* every RRset of the node that is signed at all.
C14_SepSplitFollowsFlag ==
    NodeSigned
        => LET zd == zone.heap[NodeId]
           IN  \A t \in DOMAIN zd.RR, k \in sg.keys :
                   IF sg.config.HonorSepFlag
                   THEN (HasSep(k) /\ SignedBy(zd, t, k, sg.made)) => t = TypeDNSKEY
                   ELSE (\E k2 \in sg.keys : SignedBy(zd, t, k2, sg.made))
                            => SignedBy(zd, t, k, sg.made)

\* The half of it for the configs with HonorSepFlag set.
C14_SepSplitWhenHonoring ==
    (NodeSigned /\ sg.config.HonorSepFlag)
        => \A t \in DOMAIN zone.heap[NodeId].RR, k \in sg.keys :
               (HasSep(k) /\ SignedBy(zone.heap[NodeId], t, k, sg.made))
                   => t = TypeDNSKEY

\* Whether key k is to sign the RRset of type t at the node: the RRset is
\* authoritative and the key is not kept to the DNSKEY RRset.
MustSign(zd, k, t) == Authoritative(zd, t) /\ (~HasSep(k) \/ t = TypeDNSKEY)

\* The node as the signing loop of a call with this next finds it, the NSEC
\* settled.
BeforeSigning(next) == signNsec(zone.heap[NodeId], sg.made, next, 0)

\* Whether p points to a record made by the step.
MadeByStep(p) == p > MadePtr(Len(sg.made)) /\ p <= MadePtr(Len(sg'.made))

\* C15 for one key and one type, over a step that is a call of
\* ZoneData.Sign returning nil: old is the node's RRSIG with the key's tag
\* before, due when its remaining lifetime is below Refresh.
RefreshRule(k, t) ==
    LET pre == BeforeSigning(last'.s)
        was == MapGet(pre.zd.Signatures, t)
        old == signatures(was, k.KeyTag, pre.made)
        now == Clock[sg.clock]
        due == old.q = 0
                   \/ RRrec(pre.made, old.q).Expiration - now < sg.config.Refresh
        post == MapGet(zone'.heap[NodeId].Signatures, t)
        fresh == \E i \in 1..Len(post) :
                     /\ MadeByStep(post[i])
                     /\ RRrec(sg'.made, post[i]).KeyTag = k.KeyTag
    IN  /\ due <=> fresh
        /\ (old.q # 0 /\ ~due) => (Len(post) = Len(was) /\ post[old.j] = old.q)
        /\ (old.q # 0 /\ due)
               => /\ Len(post) = Len(was)
                  /\ MadeByStep(post[old.j])
                  /\ RRrec(sg'.made, post[old.j]).KeyTag = k.KeyTag

\* A step that is a call of ZoneData.Sign returning nil.
SignStep == sg'.calls = sg.calls + 1 /\ last'.err = "nil"

\* C15: per key and RRset the key must sign, a fresh RRSIG is made if and
\* only if the node has none with the key's tag or the one it has is within
\* Refresh of its expiration (or past it); one with more left is kept, one
\* with less is replaced in place.
C15_RefreshRule ==
    [][SignStep
           => \A k \in sg.keys, t \in DOMAIN zone'.heap[NodeId].RR :
                  MustSign(zone.heap[NodeId], k, t) => RefreshRule(k, t)]_vars

\* The part of it that is about a node without a signature of the key.
C15_FirstSignature ==
    [][SignStep
           => \A k \in sg.keys, t \in DOMAIN zone'.heap[NodeId].RR :
                  (/\ MustSign(zone.heap[NodeId], k, t)
                   /\ ~SignedBy(BeforeSigning(last'.s).zd, t, k, sg.made))
                      => RefreshRule(k, t)]_vars

----------------------------------------------------------------------------
(* toRadixName on pairs of owner names *)

\* Owner names in the zone: the apex in both cases, children, grandchildren,
\* a wildcard, a label with a hyphen.
OrderNames ==
    {NameApex, NameApexUpper, NameW, NameStar, NameAW, NameABW, NameXEC, NameWhB}

OrderInit ==
    /\ \E a \in OrderNames, b \in OrderNames :
           last = [op |-> "names", a |-> a, b |-> b, ka |-> <<>>, kb |-> <<>>]
    /\ zone = NewZone
    /\ Idle

\* The radix keys of the two names.
OrderKeys ==
    /\ last.op = "names"
    /\ last' = [last EXCEPT !.op = "toRadixName",
                            !.ka = toRadixName(last.a), !.kb = toRadixName(last.b)]
    /\ UNCHANGED <<zone, thr, nlock, acked, sg, wk, ch>>

OrderNext == OrderKeys

SpecOrder == OrderInit /\ [][OrderNext]_vars

\* C16: the byte-wise order of the radix keys of two names of the zone is
\* the canonical order of the names.
C16_KeysInCanonicalOrder ==
    last.op = "toRadixName"
        => (StrLess(last.ka, last.kb) <=> CanonicalLess(last.a, last.b))

\* Whether a name has a byte that sorts before the dot.
BelowDot(n) == \E i \in 1..Len(n) : n[i] < Dot

\* The same for the names whose bytes all sort after the dot.
C16_KeysInCanonicalOrderAboveDot ==
    (last.op = "toRadixName" /\ ~BelowDot(last.a) /\ ~BelowDot(last.b))
        => (StrLess(last.ka, last.kb) <=> CanonicalLess(last.a, last.b))

----------------------------------------------------------------------------
(* OPT: the version and the DO bit in the ttl field *)

\* The ttl of an OPT record is held as its four bytes, most significant
\* first: extended RCODE, version, and the two bytes of flags.

\* a | b on bytes.
RECURSIVE BitOr(_, _)
BitOr(a, b) ==
    IF a = 0 THEN b
    ELSE IF b = 0 THEN a
    ELSE 2 * BitOr(a \div 2, b \div 2) + (IF a % 2 = 1 \/ b % 2 = 1 THEN 1 ELSE 0)

\* The DO bit, in the high byte of the flags.
_DO == 128

\* Version: uint8(Ttl & 0x00FF00FFFF), the low byte of the masked ttl.
Version(ttl) ==
    LET masked == <<ttl[1], 0, ttl[3], ttl[4]>>
    IN  masked[4]

\* SetVersion: Ttl&0xFF00FFFF | uint32(v).
SetVersion(ttl, v) == <<ttl[1], 0, ttl[3], BitOr(ttl[4], v)>>

\* Do: byte(Ttl>>8)&_DO == _DO.
Do(ttl) == (ttl[3] \div _DO) % 2 = 1

\* SetDo: the four bytes taken apart, _DO set in the third, put together.
SetDo(ttl) == <<ttl[1], ttl[2], BitOr(ttl[3], _DO), ttl[4]>>

\* The values of a byte of the ttl and of v.
ByteChoices == {0, 1, 128, 255}

OptInit ==
    /\ \E b1 \in ByteChoices, b2 \in ByteChoices, b3 \in ByteChoices, b4 \in ByteChoices :
           last = [op |-> "OPT", ttl |-> <<b1, b2, b3, b4>>, before |-> <<>>, v |-> 0]
    /\ zone = NewZone
    /\ Idle

OptSetDo ==
    /\ last' = [op |-> "SetDo", ttl |-> SetDo(last.ttl), before |-> last.ttl, v |-> 0]
    /\ UNCHANGED <<zone, thr, nlock, acked, sg, wk, ch>>

OptSetVersion(v) ==
    /\ last' = [op |-> "SetVersion", ttl |-> SetVersion(last.ttl, v),
                before |-> last.ttl, v |-> v]
    /\ UNCHANGED <<zone, thr, nlock, acked, sg, wk, ch>>

OptNext == OptSetDo \/ \E v \in ByteChoices : OptSetVersion(v)

SpecOpt == OptInit /\ [][OptNext]_vars

\* SetDo has changed the DO bit alone, has set it, and changes nothing when
\* applied again.
SetDoChangesDoOnly ==
    last.op = "SetDo"
        => /\ last.ttl[1] = last.before[1]
           /\ last.ttl[2] = last.before[2]
           /\ last.ttl[4] = last.before[4]
           /\ last.ttl[3] % _DO = last.before[3] % _DO
           /\ Do(last.ttl)
           /\ SetDo(last.ttl) = last.ttl

\* C17: SetDo changes only the DO bit and is idempotent; SetVersion(v)
\* changes only the version byte, leaving the extended RCODE and the flags,
\* and Version() returns v afterwards.
C17_OptTtlBits ==
    /\ SetDoChangesDoOnly
    /\ last.op = "SetVersion"
           => /\ last.ttl[1] = last.before[1]
              /\ last.ttl[3] = last.before[3]
              /\ last.ttl[4] = last.before[4]
              /\ last.ttl[2] = last.v
              /\ Version(last.ttl) = last.v

----------------------------------------------------------------------------
(* EDNS0 options: pack and unpack *)

\* hex.DecodeString: two hex digits, of either case, per byte; <<-1>> stands
\* for its error (a character that is no hex digit, an odd length).
fromHexChar(c) ==
    IF c >= 48 /\ c <= 57 THEN c - 48
    ELSE IF c >= 97 /\ c <= 102 THEN c - 87
    ELSE IF c >= 65 /\ c <= 70 THEN c - 55
    ELSE -1

hexDecode(str) ==
    IF Len(str) % 2 = 1 \/ \E i \in 1..Len(str) : fromHexChar(str[i]) = -1
    THEN <<-1>>
    ELSE [i \in 1..(Len(str) \div 2) |->
             16 * fromHexChar(str[2 * i - 1]) + fromHexChar(str[2 * i])]

\* hex.EncodeToString: two digits of "0123456789abcdef" per byte.
hexEncode(b) ==
    LET digit(d) == IF d < 10 THEN 48 + d ELSE 87 + d
    IN  [i \in 1..(2 * Len(b)) |->
            IF i % 2 = 1 THEN digit(b[(i + 1) \div 2] \div 16)
            ELSE digit(b[i \div 2] % 16)]

\* The n low bytes of x, most significant first: byte(x >> 8*(n-1)), ...,
\* byte(x); and the number they make, uint(b[0])<<... | ... | uint(b[n-1]).
RECURSIVE bigEndian(_, _)
bigEndian(x, n) ==
    IF n = 0 THEN <<>> ELSE Append(bigEndian(x \div 256, n - 1), x % 256)

RECURSIVE fromBigEndian(_)
fromBigEndian(b) ==
    IF b = <<>> THEN 0
    ELSE 256 * fromBigEndian(SubSeq(b, 1, Len(b) - 1)) + b[Len(b)]

\* a & b on bytes.
RECURSIVE BitAnd(_, _)
BitAnd(a, b) ==
    IF a = 0 \/ b = 0 THEN 0
    ELSE 2 * BitAnd(a \div 2, b \div 2) + (IF a % 2 = 1 /\ b % 2 = 1 THEN 1 ELSE 0)

\* Package net. An IP is 4 or 16 bytes, <<>> is nil; IPv4 makes the 16-byte
\* form of an IPv4 address, To4 the 4-byte form (nil if it has none),
\* CIDRMask a mask of ones one-bits in a width of bits, Mask the address
\* and-ed with a mask (nil if the lengths do not fit).
v4InV6Prefix == <<0, 0, 0, 0, 0, 0, 0, 0, 0, 0, 255, 255>>

IPv4(a, b, c, d) == v4InV6Prefix \o <<a, b, c, d>>

To4(ip) ==
    IF Len(ip) = 4 THEN ip
    ELSE IF Len(ip) = 16 /\ SubSeq(ip, 1, 12) = v4InV6Prefix THEN SubSeq(ip, 13, 16)
    ELSE <<>>

CIDRMask(ones, bits) ==
    [i \in 1..(bits \div 8) |->
        IF ones >= 8 * i THEN 255
        ELSE IF ones <= 8 * (i - 1) THEN 0
        ELSE 256 - 2 ^ (8 * i - ones)]

Mask(ip, mask) ==
    LET mk == IF Len(mask) = 16 /\ Len(ip) = 4
                    /\ \A i \in 1..12 : mask[i] = 255
              THEN SubSeq(mask, 13, 16) ELSE mask
        a == IF Len(mask) = 4 /\ Len(ip) = 16 /\ SubSeq(ip, 1, 12) = v4InV6Prefix
             THEN SubSeq(ip, 13, 16) ELSE ip
    IN  IF Len(a) # Len(mk) THEN <<>>
        ELSE [i \in 1..Len(a) |-> BitAnd(a[i], mk[i])]

\* The address part of EDNS0_SUBNET.pack for a family of width n bytes: the
\* masked address a copied into n zero bytes, as far as e.Address reaches.
\* Indexing a nil a faults.
subnetAddress(e, a, n) ==
    IF Len(e.Address) >= 1 /\ a = <<>> THEN [err |-> "panic", b |-> <<>>]
    ELSE [err |-> "nil",
          b |-> bigEndian(e.Family, 2) \o <<e.SourceNetmask, e.SourceScope>>
                    \o [i \in 1..n |-> IF i <= Len(e.Address) THEN a[i] ELSE 0]]

\* pack of the four options: the bytes and the error.
pack(e) ==
    CASE e.kind = "NSID" ->
             LET h == hexDecode(e.Nsid)
             IN  IF h = <<-1>> THEN [err |-> "error", b |-> <<>>]
                 ELSE [err |-> "nil", b |-> h]
      [] e.kind = "SUBNET" ->
             IF e.Family = 1
             THEN IF e.SourceNetmask > 4 * 8 THEN [err |-> "error", b |-> <<>>]
                  ELSE subnetAddress(
                           e, Mask(To4(e.Address), CIDRMask(e.SourceNetmask, 4 * 8)), 4)
             ELSE IF e.Family = 2
             THEN IF e.SourceNetmask > 16 * 8 THEN [err |-> "error", b |-> <<>>]
                  ELSE subnetAddress(
                           e, Mask(e.Address, CIDRMask(e.SourceNetmask, 16 * 8)), 16)
             ELSE [err |-> "error", b |-> <<>>]
      [] e.kind = "UPDATE_LEASE" -> [err |-> "nil", b |-> bigEndian(e.Lease, 4)]
      [] e.kind = "LLQ" ->
             [err |-> "nil",
              b |-> bigEndian(e.Version, 2) \o bigEndian(e.LLQOpcode, 2)
                        \o bigEndian(e.ErrorCode, 2) \o bigEndian(e.LLQID, 8)
                        \o bigEndian(e.LeaseLife, 4)]

\* A fresh option of a kind: new(EDNS0_...), every field zero.
NewOption(kind) ==
    CASE kind = "NSID" -> [kind |-> kind, Nsid |-> <<>>]
      [] kind = "SUBNET" ->
             [kind |-> kind, Family |-> 0, SourceNetmask |-> 0, SourceScope |-> 0,
              Address |-> <<>>]
      [] kind = "UPDATE_LEASE" -> [kind |-> kind, Lease |-> 0]
      [] kind = "LLQ" ->
             [kind |-> kind, Version |-> 0, LLQOpcode |-> 0, ErrorCode |-> 0,
              LLQID |-> 0, LeaseLife |-> 0]

\* unpack of the four options into the option e.
unpack(e, b) ==
    CASE e.kind = "NSID" -> [e EXCEPT !.Nsid = hexEncode(b)]
      [] e.kind = "SUBNET" ->
             IF Len(b) < 8 THEN e
             ELSE LET f == fromBigEndian(SubSeq(b, 1, 2))
                  IN  [e EXCEPT !.Family = f, !.SourceNetmask = b[3],
                                !.SourceScope = b[4],
                                !.Address =
                                    IF f = 1 /\ Len(b) = 8
                                    THEN IPv4(b[5], b[6], b[7], b[8])
                                    ELSE IF f = 2 /\ Len(b) = 20 THEN SubSeq(b, 5, 20)
                                    ELSE @]
      [] e.kind = "UPDATE_LEASE" -> [e EXCEPT !.Lease = fromBigEndian(SubSeq(b, 1, 4))]
      [] e.kind = "LLQ" ->
             [e EXCEPT !.Version = fromBigEndian(SubSeq(b, 1, 2)),
                       !.LLQOpcode = fromBigEndian(SubSeq(b, 3, 4)),
                       !.ErrorCode = fromBigEndian(SubSeq(b, 5, 6)),
                       !.LLQID = fromBigEndian(SubSeq(b, 7, 14)),
                       !.LeaseLife = fromBigEndian(SubSeq(b, 15, 18))]

\* The option values of the model.
NsidChars == {Ord["0"], Ord["a"], Ord["A"], Ord["g"]}

OptionValues ==
    {[kind |-> "NSID", Nsid |-> n] :
         n \in {<<>>} \cup {<<c>> : c \in NsidChars}
                  \cup {<<c, d>> : c \in NsidChars, d \in NsidChars}}
    \cup {[kind |-> "SUBNET", Family |-> 1, SourceNetmask |-> n, SourceScope |-> sc,
           Address |-> a] :
              n \in {0, 8, 20, 32, 33}, sc \in {0, 24},
              a \in {<<>>, <<10, 1, 2, 3>>, IPv4(10, 1, 2, 3)}}
    \cup {[kind |-> "SUBNET", Family |-> f, SourceNetmask |-> n, SourceScope |-> 0,
           Address |-> <<32, 1, 13, 184, 0, 0, 0, 0, 0, 0, 0, 0, 0, 0, 0, 1>>] :
              f \in {2, 3}, n \in {0, 64, 128, 129}}
    \cup {[kind |-> "UPDATE_LEASE", Lease |-> l] : l \in {0, 120, 16909060}}
    \cup {[kind |-> "LLQ", Version |-> 1, LLQOpcode |-> 1, ErrorCode |-> ec,
           LLQID |-> id, LeaseLife |-> l] :
              ec \in {0, 1}, id \in {0, 258}, l \in {0, 3600}}

CodecInit ==
    /\ \E o \in OptionValues :
           last = [op |-> "option", o |-> o, err |-> "nil", b |-> <<>>, back |-> o]
    /\ zone = NewZone
    /\ Idle

\* pack, and when it succeeds unpack of the bytes into a fresh option of the
\* kind.
CodecRoundTrip ==
    /\ last.op = "option"
    /\ LET p == pack(last.o)
       IN  last' = [last EXCEPT !.op = "unpacked", !.err = p.err, !.b = p.b,
                                !.back = IF p.err = "nil"
                                         THEN unpack(NewOption(last.o.kind), p.b)
                                         ELSE NewOption(last.o.kind)]
    /\ UNCHANGED <<zone, thr, nlock, acked, sg, wk, ch>>

CodecNext == CodecRoundTrip

SpecCodec == CodecInit /\ [][CodecNext]_vars

\* net.IP.Equal: the same address, in the 4-byte or the 16-byte form.
IPEqual(x, y) == x = y \/ (To4(x) # <<>> /\ To4(x) = To4(y))

\* Whether two options of a kind agree in every payload field.
SamePayload(x, y) ==
    IF x.kind = "SUBNET"
    THEN /\ x.Family = y.Family
         /\ x.SourceNetmask = y.SourceNetmask
         /\ x.SourceScope = y.SourceScope
         /\ IPEqual(x.Address, y.Address)
    ELSE x = y

\* C18: when pack of an option succeeds, unpack of the bytes into a fresh
\* option of the kind gives back every payload field, for SUBNET the address
\* too, whatever the address and the source netmask.
C18_CodecRoundTrip ==
    (last.op = "unpacked" /\ last.err = "nil") => SamePayload(last.o, last.back)

\* The same for UPDATE-LEASE and LLQ.
C18_RoundTripOfNumbers ==
    (last.op = "unpacked" /\ last.err = "nil"
         /\ last.o.kind \in {"UPDATE_LEASE", "LLQ"})
        => SamePayload(last.o, last.back)

\* The same for SUBNET with a netmask of the full width.
C18_RoundTripOfWholeAddress ==
    (last.op = "unpacked" /\ last.err = "nil" /\ last.o.kind = "SUBNET"
         /\ last.o.Address # <<>>
         /\ last.o.SourceNetmask = IF last.o.Family = 1 THEN 32 ELSE 128)
        => SamePayload(last.o, last.back)

----------------------------------------------------------------------------
(* The flag and the name of a node, under Spec *)

\* The types for which a node holds signatures.
SignedTypes(zd) == {t \in DOMAIN zd.Signatures : zd.Signatures[t] # <<>>}

\* C24 (I7): a node with NonAuth set holds RRSIGs for at most the types DS
\* and NSEC.
C24_NonAuthSignatures ==
    \A id \in Range(zone.Radix) :
        zone.heap[id].NonAuth => SignedTypes(zone.heap[id]) \subseteq {TypeDS, TypeNSEC}

\* C25: NonAuth is set at a node if and only if the node holds an NS RRset
\* and its name, letter case aside, is not the origin.
C25_NonAuthIsDelegation ==
    \A id \in Range(zone.Radix) :
        zone.heap[id].NonAuth
            <=> (/\ MapGet(zone.heap[id].RR, TypeNS) # <<>>
                 /\ ToLower(zone.heap[id].Name) # Origin)

\* C26: the name of every node is in lower case, the name of the apex node
\* being the origin.
C26_NamesLowercased ==
    \A k \in DOMAIN zone.Radix :
        /\ NameOfKey(zone, k) = ToLower(NameOfKey(zone, k))
        /\ k = toRadixName(Origin) => NameOfKey(zone, k) = Origin

\* The part of it that is about the keys: the node is at the key of the
\* lowercased name, so names that differ in case alone share a node.
C26_OneNodePerName ==
    \A k \in DOMAIN zone.Radix : k = toRadixName(ToLower(NameOfKey(zone, k)))


----------------------------------------------------------------------------
(* The zone lock, under SpecConc *)

\* A goroutine past z.Unlock() and before its return: it holds the lock of
\* its node at most, never the zone lock.
PastZoneUnlock(i) == thr[i].pc \in {"insertEdit", "removeEdit", "removeFinish", "rrsetEdit"}

\* The goroutine i takes a step of its call.
Steps(i) == thr'[i].pc # thr[i].pc

\* C23: every step that changes the tree (a node inserted or removed) or the
\* zone's wildcard count is taken by a goroutine that holds the zone write
\* lock: no goroutine that released it changes either.
C23_StructureUnderZoneLock ==
    [][\A i \in Threads :
           (PastZoneUnlock(i) /\ Steps(i))
               => /\ zone'.Radix = zone.Radix
                  /\ zone'.Wildcard = zone.Wildcard]_vars


----------------------------------------------------------------------------
(* The workers at Sign's return, under SpecSign *)

\* Sign has returned, and the deferred z.Unlock() has run.
SignReturned == sg.ret.kind # "none"

\* The worker w has returned from signerRoutine.
Terminated(w) == wk[w].pc = "done"

\* C27: whenever Sign has returned, with nil, with a signing error or with
\* ErrSoa, every worker it started has returned: none waits on radChan or
\* on errChan, none sends on the closed errChan, none is signing a node.
C27_WorkersTerminated ==
    SignReturned => \A w \in DOMAIN wk : Terminated(w)

\* After a return of nil every worker has returned: Sign waited for them.
C27_WorkersTerminatedOnNil ==
    sg.ret.kind = "nil" => \A w \in DOMAIN wk : Terminated(w)


----------------------------------------------------------------------------
(* The NSEC's type bitmap, under SpecNode *)

\* The NSEC of the node.
NodeNsec == RRrec(sg.made, zone.heap[NodeId].RR[TypeNSEC][1])

\* C21: after ZoneData.Sign on the node, the first time and every time
\* after, types added to the node or removed from it in between, the
\* NSEC's type bitmap is the sorted union of {NSEC, RRSIG} and the types of
\* the node's RR map.
C21_NsecBitmap ==
    NodeSigned => NodeNsec.TypeBitMap = nodeBitmap(zone.heap[NodeId])

\* The half of it that is about the types present: each is in the bitmap.
C21_NsecBitmapHoldsTypes ==
    NodeSigned
        => \A t \in DOMAIN zone.heap[NodeId].RR :
               \E i \in 1..Len(NodeNsec.TypeBitMap) : NodeNsec.TypeBitMap[i] = t


----------------------------------------------------------------------------
(* A Sign pass and a goroutine calling the mutators *)

\* The goroutine that calls Insert, Remove and RemoveRRset: the first.
Caller == CHOOSE i \in Threads : \A j \in Threads : i <= j

\* The zone before the pass: an SOA at the apex and two A records at
\* w.e.c. The caller inserts a DNSKEY at w.e.c., removes the second A
\* record, removes the RRset w.e.c. A: the node w.e.c. stays in the tree.
PassRRs == <<11, 1, 2>>

CallerInserts == {16}

CallerRemoves == {2}

\* Sign holds the zone lock: from z.Lock() to the deferred z.Unlock() at
\* its return.
ZoneLockedBySign == sg.pc \notin {"start", "done"}

PassInit ==
    /\ zone = InsertAll(NewZone, PassRRs)
    /\ \E f \in SUBSET (DOMAIN zone.Radix) :
           /\ Cardinality(f) <= MaxFailing
           /\ sg = NoPass(SignatureConfig(TRUE, 1), {KeyZ}, f)
    /\ wk = <<>>
    /\ ch = [rad |-> <<>>, radClosed |-> FALSE, errClosed |-> FALSE, wg |-> 0,
             reported |-> <<>>, once |-> {}, again |-> {}]
    /\ last = Call("NewZone", 0, <<>>, 0, "nil")
    /\ thr = [i \in {Caller} |-> IdleThread]
    /\ nlock = {}
    /\ acked = [r \in RRs |-> "none"]

\* The caller's calls. The part of a call under the zone lock waits for
\* Sign to release it; the part under the node's lock does not.
PassInsertLocate(r) == ~ZoneLockedBySign /\ NoFault /\ ConcInsertLocate(Caller, r)

PassInsertEdit == NoFault /\ ConcInsertEdit(Caller)

PassRemoveLocate(r) == ~ZoneLockedBySign /\ NoFault /\ ConcRemoveLocate(Caller, r)

PassRemoveEdit == NoFault /\ ConcRemoveEdit(Caller)

PassRemoveFinish == NoFault /\ ConcRemoveFinish(Caller)

PassRemoveRRsetLocate(s, t) ==
    ~ZoneLockedBySign /\ NoFault /\ ConcRemoveRRsetLocate(Caller, s, t)

PassRemoveRRsetEdit == NoFault /\ ConcRemoveRRsetEdit(Caller)

PassNext ==
    \/ SignNext
    \/ \E r \in CallerInserts : PassInsertLocate(r)
    \/ PassInsertEdit
    \/ \E r \in CallerRemoves : PassRemoveLocate(r)
    \/ PassRemoveEdit
    \/ PassRemoveFinish
    \/ PassRemoveRRsetLocate(NameW, TypeA)
    \/ PassRemoveRRsetEdit

SpecPass == PassInit /\ [][PassNext]_vars

\* C22: while Sign holds the zone lock, no step of a call of Insert, Remove
\* or RemoveRRset changes a node or the tree, be the call one that began
\* before Sign took the lock.
C22_NoMutatorDuringPass ==
    [][(ZoneLockedBySign /\ thr'[Caller] # thr[Caller])
           => /\ zone'.heap = zone.heap
              /\ zone'.Radix = zone.Radix]_vars

\* The half of it that is about the calls that begin during the pass: none
\* does.
C22_NoCallBeginsDuringPass ==
    [][(ZoneLockedBySign /\ thr[Caller].pc = "idle")
           => /\ thr'[Caller].pc = "idle"
              /\ zone'.ModTime = zone.ModTime]_vars

====
